---- MODULE Spec2Model ----
(***************************************************************************)
(* A model of tabulate_solar.py: the parser of SOLAR polygenic.out reports *)
(* (metadata block, statements, report) and the table assembler            *)
(* (build_table, build_header, main).                                      *)
(*                                                                         *)
(* Text is modelled as a sequence of one-character strings, so that the    *)
(* regular expressions, prefix tests and concatenations of the source act  *)
(* on characters.  Python's None is the value None below, which is no      *)
(* text (its only element is not a character).  A Python dict, which keeps *)
(* insertion order, is a sequence of records [k, v] with distinct k.       *)
(***************************************************************************)
EXTENDS Integers, Sequences, FiniteSets, TLC

VARIABLES
    pn_name, pn_traits, pn_out,          \* one call of parse_name
    hd_file, hd_out,                     \* one call of read_polygenic_out
    v_traits, values, v_log, v_err,      \* the loop of read_polygenic_out_value
    t_rows, table, header, t_pc,         \* build_table, then build_header
    files, skip_failures, m_idx, rows, m_out   \* main

vars == <<pn_name, pn_traits, pn_out, hd_file, hd_out,
          v_traits, values, v_log, v_err,
          t_rows, table, header, t_pc,
          files, skip_failures, m_idx, rows, m_out>>

----------------------------------------------------------------------------
(* Bounds of the model.                                                    *)

MaxNameLen == 5     \* characters of a raw name given to parse_name
MaxTokens == 5      \* tokens and line ends of the text of a metadata block
MaxStmts == 3       \* admitted statements of one file
MaxFiles == 2       \* input files of one run of main
MaxReports == 2     \* Reports given to build_table

----------------------------------------------------------------------------
(* Text and dicts.                                                         *)

None == <<"None">>

Idle == <<"idle">>

Cat3(a, b, c) == a \o b \o c

SeqsUpTo(S, n) == UNION {[1..k -> S] : k \in 0..n}

NonEmptySeqsUpTo(S, n) == UNION {[1..k -> S] : k \in 1..n}

Range(s) == {s[i] : i \in 1..Len(s)}

MaxOf(S) == CHOOSE x \in S : \A y \in S : y <= x

MinOf(S) == CHOOSE x \in S : \A y \in S : x <= y

Keys(d) == [i \in 1..Len(d) |-> d[i].k]

HasKey(d, key) == \E i \in 1..Len(d) : d[i].k = key

IndexOfKey(d, key) == MinOf({i \in 1..Len(d) : d[i].k = key})

\* d.get(key): the value, or None
Get(d, key) == IF HasKey(d, key) THEN d[IndexOfKey(d, key)].v ELSE None

\* d[key] = val: an existing key keeps its position, a new key goes last
Put(d, key, val) ==
    IF HasKey(d, key)
    THEN [d EXCEPT ![IndexOfKey(d, key)] = [k |-> key, v |-> val]]
    ELSE Append(d, [k |-> key, v |-> val])

\* d.pop(key), for a key that d has: d without it
Pop(d, key) ==
    LET i == IndexOfKey(d, key)
    IN  SubSeq(d, 1, i - 1) \o SubSeq(d, i + 1, Len(d))

StartsWith(s, p) == Len(s) >= Len(p) /\ SubSeq(s, 1, Len(p)) = p

----------------------------------------------------------------------------
(* parse_name: _RE_NAME_AND_TRAIT = (.+)\((.+)\) applied with match(),      *)
(* anchored at the start only; both groups are greedy.                     *)

\* the places <<i, j>> of a "(" and a later ")" with text before and between
ParenPairs(name) ==
    {p \in (1..Len(name)) \X (1..Len(name)) :
        /\ name[p[1]] = "("
        /\ name[p[2]] = ")"
        /\ p[1] >= 2
        /\ p[2] >= p[1] + 2}

RE_NAME_AND_TRAIT_matches(name) == ParenPairs(name) # {}

\* match.groups(): the first group takes the longest text that lets the
\* rest match, then the second group does
RE_NAME_AND_TRAIT_groups(name) ==
    LET i == MaxOf({p[1] : p \in ParenPairs(name)})
        j == MaxOf({p[2] : p \in {q \in ParenPairs(name) : q[1] = i}})
    IN  <<SubSeq(name, 1, i - 1), SubSeq(name, i + 1, j - 1)>>

\* a variant of parse_name that looks at the number of traits first
parse_name_sole_first(name, traits) ==
    IF Len(traits) = 1
    THEN <<name, traits[1]>>
    ELSE IF RE_NAME_AND_TRAIT_matches(name)
         THEN RE_NAME_AND_TRAIT_groups(name)
         ELSE <<name, None>>

parse_name(name, traits) ==
    IF RE_NAME_AND_TRAIT_matches(name)
    THEN RE_NAME_AND_TRAIT_groups(name)
    ELSE IF Len(traits) = 1
         THEN <<name, traits[1]>>
         ELSE <<name, None>>

----------------------------------------------------------------------------
(* Exceptions: the Python class that is raised, and the kind of per-file   *)
(* error of the report format it stands for.                               *)

NoError == [type |-> "none", kind |-> "none"]

ParseError(kind) == [type |-> "ParseError", kind |-> kind]

KeyError(kind) == [type |-> "KeyError", kind |-> kind]

ValueError(kind) == [type |-> "ValueError", kind |-> kind]

PermissionError(kind) == [type |-> "PermissionError", kind |-> kind]

----------------------------------------------------------------------------
(* read_polygenic_out_header.  A line of the metadata block is the         *)
(* sequence of its tokens, line.strip().split(); the block is the lines    *)
(* before the first blank line (or the end of the file).                   *)

TRAIT == <<"T", "r", "a", "i", "t">>

COLON == ":"

\* "The last run of polygenic did not run to completion."
SENTINEL ==
    << <<"T", "h", "e">>, <<"l", "a", "s", "t">>, <<"r", "u", "n">>, <<"o", "f">>,
       <<"p", "o", "l", "y", "g", "e", "n", "i", "c">>,
       <<"d", "i", "d">>, <<"n", "o", "t">>, <<"r", "u", "n">>, <<"t", "o">>,
       <<"c", "o", "m", "p", "l", "e", "t", "i", "o", "n", ".">> >>

\* value.endswith(":")
IsLabel(value) == Len(value) >= 1 /\ value[Len(value)] = COLON

\* value[:-1]
LabelOf(value) == SubSeq(value, 1, Len(value) - 1)

\* a variant of OpenLabel that keeps the list a repeated label already has
OpenLabelKeep(metadata, last_key) ==
    Put(metadata, last_key,
        IF HasKey(metadata, last_key) THEN Get(metadata, last_key) ELSE <<>>)

\* last_value = metadata[last_key] = []
OpenLabel(metadata, last_key) == Put(metadata, last_key, <<>>)

\* the for loop over line.split(); last_key = None stands for
\* last_value = None, otherwise last_value is the list metadata[last_key]
RECURSIVE ScanTokens(_, _, _)
ScanTokens(metadata, last_key, toks) ==
    IF toks = <<>>
    THEN metadata
    ELSE LET value == Head(toks)
         IN  IF IsLabel(value)
             THEN ScanTokens(OpenLabel(metadata, LabelOf(value)),
                             LabelOf(value), Tail(toks))
             ELSE IF last_key # None
                  THEN ScanTokens(Put(metadata, last_key,
                                      Append(Get(metadata, last_key), value)),
                                  last_key, Tail(toks))
                  ELSE ScanTokens(metadata, last_key, Tail(toks))

\* the while loop over the lines of the block
RECURSIVE ScanLines(_, _)
ScanLines(metadata, lines) ==
    IF lines = <<>>
    THEN metadata
    ELSE ScanLines(ScanTokens(metadata, None, Head(lines)), Tail(lines))

read_polygenic_out_header(meta) ==
    IF meta # <<>> /\ Head(meta) = SENTINEL
    THEN [err |-> ParseError("IncompleteRun"), metadata |-> <<>>]
    ELSE LET metadata == ScanLines(<<>>, meta)
         IN  IF metadata = <<>>
             THEN [err |-> ParseError("NoMetadata"), metadata |-> <<>>]
             ELSE IF ~HasKey(metadata, TRAIT)
                  THEN [err |-> ParseError("MissingTraitLabel"), metadata |-> <<>>]
                  ELSE [err |-> NoError, metadata |-> metadata]

----------------------------------------------------------------------------
(* read_polygenic_out_value.  An admitted line is the statement the three  *)
(* regular expressions make of it: its shape ("is", "stderr", "different", *)
(* or "other" when none matches), the raw name (the first group), the      *)
(* value (for "different": the comparator) and the p-value.                *)

DERIVED == <<"D", "e", "r", "i", "v", "e", "d", " ", "E", "s", "t", "i", "m", "a", "t", "e", " ", "o", "f", " ">>

\* name[20:]
StripDerived(name) == SubSeq(name, 21, Len(name))

NewRecord(estimated, value, pvalue) ==
    [estimated |-> estimated, value |-> value, pvalue |-> pvalue,
     stderr |-> None, different |-> <<>>]

\* the branch of _RE_VARIABLE_IS
AssignKey(stmt, traits) ==
    LET nt == parse_name(stmt.name, traits)
    IN  IF StartsWith(nt[1], DERIVED)
        THEN <<StripDerived(nt[1]), nt[2]>>
        ELSE nt

\* a variant of Assign that keeps what was attached to a record it replaces
AssignKeep(vals, stmt, traits) ==
    LET nt == parse_name(stmt.name, traits)
        key == AssignKey(stmt, traits)
        new == NewRecord(StartsWith(nt[1], DERIVED), stmt.value, stmt.pvalue)
    IN  [err |-> NoError,
         values |-> Put(vals, key,
                        IF HasKey(vals, key)
                        THEN [new EXCEPT !.stderr = Get(vals, key).stderr,
                                         !.different = Get(vals, key).different]
                        ELSE new)]

Assign(vals, stmt, traits) ==
    LET nt == parse_name(stmt.name, traits)
    IN  [err |-> NoError,
         values |-> Put(vals, AssignKey(stmt, traits),
                        NewRecord(StartsWith(nt[1], DERIVED),
                                  stmt.value, stmt.pvalue))]

\* the branch of _RE_STD_ERROR
StdError(vals, stmt, traits) ==
    LET key == parse_name(stmt.name, traits)
        current == Get(vals, key)
    IN  IF ~HasKey(vals, key)
        THEN [err |-> ParseError("OrphanStdError"), values |-> vals]
        ELSE [err |-> NoError,
              values |-> Put(vals, key, [current EXCEPT !.stderr = stmt.value])]

\* the branch of _RE_DIFFERENT_FROM; values[(name, trait)] raises KeyError
DifferentFrom(vals, stmt, traits) ==
    LET key == parse_name(stmt.name, traits)
    IN  IF ~HasKey(vals, key)
        THEN [err |-> KeyError("OrphanDifferenceTest"), values |-> vals]
        ELSE LET current == Get(vals, key)
             IN  [err |-> NoError,
                  values |-> Put(vals, key,
                      [current EXCEPT !.different =
                          Append(@, <<stmt.value, stmt.pvalue>>)])]

\* one turn of the loop over the lines
ValueStep(vals, stmt, traits) ==
    CASE stmt.shape = "is" -> Assign(vals, stmt, traits)
      [] stmt.shape = "stderr" -> StdError(vals, stmt, traits)
      [] stmt.shape = "different" -> DifferentFrom(vals, stmt, traits)
      [] OTHER -> [err |-> NoError, values |-> vals]

RECURSIVE ValueLoop(_, _, _)
ValueLoop(vals, body, traits) ==
    IF body = <<>>
    THEN [err |-> NoError, values |-> vals]
    ELSE LET r == ValueStep(vals, Head(body), traits)
         IN  IF r.err # NoError
             THEN r
             ELSE ValueLoop(r.values, Tail(body), traits)

read_polygenic_out_value(body, metadata) ==
    ValueLoop(<<>>, body, Get(metadata, TRAIT))

----------------------------------------------------------------------------
(* read_polygenic_out.  A file is [access, meta, body]: whether it can be  *)
(* opened and decoded, its metadata block and its statements.              *)

NoReport == [metadata |-> <<>>, traits |-> <<>>, values |-> <<>>]

MakeReport(metadata, vals) ==
    [metadata |-> Pop(metadata, TRAIT),
     traits |-> Get(metadata, TRAIT),
     values |-> vals]

read_polygenic_out(file) ==
    CASE file.access = "denied" ->
            \* filepath.open raises outside the try block
            [err |-> PermissionError("UnreadableFile"), report |-> NoReport]
      [] file.access = "binary" ->
            [err |-> ParseError("UnreadableFile"), report |-> NoReport]
      [] OTHER ->
            LET h == read_polygenic_out_header(file.meta)
            IN  IF h.err # NoError
                THEN [err |-> h.err, report |-> NoReport]
                ELSE LET v == read_polygenic_out_value(file.body, h.metadata)
                     IN  IF v.err # NoError
                         THEN [err |-> v.err, report |-> NoReport]
                         ELSE [err |-> NoError,
                               report |-> MakeReport(h.metadata, v.values)]

----------------------------------------------------------------------------
(* build_table.                                                            *)

\* string.ascii_uppercase and string.ascii_lowercase
ascii_uppercase == <<"A", "B", "C", "D", "E", "F", "G", "H", "I", "J", "K", "L", "M", "N", "O", "P", "Q", "R", "S", "T", "U", "V", "W", "X", "Y", "Z">>

ascii_lowercase == <<"a", "b", "c", "d", "e", "f", "g", "h", "i", "j", "k", "l", "m", "n", "o", "p", "q", "r", "s", "t", "u", "v", "w", "x", "y", "z">>

IsUpper(c) == \E i \in 1..26 : ascii_uppercase[i] = c

IsLower(c) == \E i \in 1..26 : ascii_lowercase[i] = c

ToUpper(c) ==
    IF IsLower(c)
    THEN ascii_uppercase[CHOOSE i \in 1..26 : ascii_lowercase[i] = c]
    ELSE c

ToLower(c) ==
    IF IsUpper(c)
    THEN ascii_lowercase[CHOOSE i \in 1..26 : ascii_uppercase[i] = c]
    ELSE c

\* str.title(): a letter after a non-letter is made upper case, a letter
\* after a letter lower case
Title(s) ==
    [i \in 1..Len(s) |->
        IF i > 1 /\ (IsUpper(s[i - 1]) \/ IsLower(s[i - 1]))
        THEN ToLower(s[i])
        ELSE ToUpper(s[i])]

\* " ".join(v)
RECURSIVE Join(_)
Join(v) ==
    IF v = <<>> THEN <<>>
    ELSE IF Len(v) = 1 THEN v[1]
    ELSE Cat3(v[1], <<" ">>, Join(Tail(v)))

\* max((len(row["traits"]) for row in rows), default=0)
NumTraits(reports) ==
    IF reports = <<>> THEN 0
    ELSE MaxOf({Len(reports[i].traits) : i \in 1..Len(reports)})

\* string.ascii_uppercase[:num_traits]
Letters(reports) ==
    SubSeq(ascii_uppercase, 1,
           IF NumTraits(reports) < 26 THEN NumTraits(reports) ELSE 26)

\* result.update(itertools.zip_longest(traits, row["traits"]))
RECURSIVE SeedRow(_, _, _, _)
SeedRow(result, letters, rtraits, i) ==
    IF i > Len(letters) /\ i > Len(rtraits)
    THEN result
    ELSE SeedRow(Put(result,
                     IF i <= Len(letters) THEN <<letters[i]>> ELSE None,
                     IF i <= Len(rtraits) THEN rtraits[i] ELSE None),
                 letters, rtraits, i + 1)

\* result.update((k, " ".join(v)) for k, v in row["metadata"].items())
RECURSIVE AddMetadata(_, _)
AddMetadata(result, metadata) ==
    IF metadata = <<>>
    THEN result
    ELSE AddMetadata(Put(result, Head(metadata).k, Join(Head(metadata).v)),
                     Tail(metadata))

\* row["traits"].index(trait): the first position, 0 when there is none
\* (where the source raises ValueError)
TraitIndex(rtraits, trait) ==
    IF \E i \in 1..Len(rtraits) : rtraits[i] = trait
    THEN MinOf({i \in 1..Len(rtraits) : rtraits[i] = trait})
    ELSE 0

\* whether the key of a record can be made: the trait is found and has a letter
KeyFails(letters, rtraits, trait) ==
    /\ trait # None
    /\ \/ TraitIndex(rtraits, trait) = 0
       \/ TraitIndex(rtraits, trait) > Len(letters)

\* a variant of BaseKey that keeps the ".est" suffix before the trait letter
BaseKeyEst(letters, rtraits, name, trait, estimated) ==
    LET key == IF estimated THEN name \o <<".", "e", "s", "t">> ELSE name
    IN  IF trait # None
        THEN Cat3(key, <<".">>, <<letters[TraitIndex(rtraits, trait)]>>)
        ELSE key

\* the key of a record, lines 167-173
BaseKey(letters, rtraits, name, trait, estimated) ==
    IF trait # None
    THEN Cat3(name, <<".">>, <<letters[TraitIndex(rtraits, trait)]>>)
    ELSE IF estimated
         THEN name \o <<".", "e", "s", "t">>
         ELSE name

\* for value, pvalue in values["different"]
RECURSIVE AddDifferent(_, _, _)
AddDifferent(result, key, different) ==
    IF different = <<>>
    THEN result
    ELSE AddDifferent(
            Put(result, Cat3(key, <<".", "p", "N", "o", "t">>, Title(Head(different)[1])),
                Head(different)[2]),
            key, Tail(different))

AddRecord(result, key, rec) ==
    AddDifferent(
        Put(Put(Put(result, key, rec.value),
                key \o <<".", "s", "t", "d", "e", "r", "r">>, rec.stderr),
            key \o <<".", "p", "v", "a", "l", "u", "e">>, rec.pvalue),
        key, rec.different)

\* for (name, trait), values in row["values"].items()
RECURSIVE AddValues(_, _, _, _)
AddValues(result, letters, rtraits, vals) ==
    IF vals = <<>>
    THEN [err |-> NoError, row |-> result]
    ELSE LET name == Head(vals).k[1]
             trait == Head(vals).k[2]
             rec == Head(vals).v
         IN  IF KeyFails(letters, rtraits, trait)
             THEN [err |-> ValueError("build_table"), row |-> result]
             ELSE AddValues(
                     AddRecord(result,
                               BaseKey(letters, rtraits, name, trait,
                                       rec.estimated),
                               rec),
                     letters, rtraits, Tail(vals))

BuildRow(letters, report) ==
    AddValues(AddMetadata(SeedRow(<<>>, letters, report.traits, 1),
                          report.metadata),
              letters, report.traits, report.values)

RECURSIVE BuildRows(_, _, _)
BuildRows(tbl, letters, reports) ==
    IF reports = <<>>
    THEN [err |-> NoError, table |-> tbl]
    ELSE LET r == BuildRow(letters, Head(reports))
         IN  IF r.err # NoError
             THEN [err |-> r.err, table |-> <<>>]
             ELSE BuildRows(Append(tbl, r.row), letters, Tail(reports))

build_table(reports) == BuildRows(<<>>, Letters(reports), reports)

----------------------------------------------------------------------------
(* build_header.                                                           *)

\* a variant of Mark in which the last row decides
MarkLast(hdr, key, value) == Put(hdr, key, IF value = None THEN 0 ELSE 1)

\* header[key] = header.get(key, 0) + 0 if value is None else 1
Mark(hdr, key, value) ==
    Put(hdr, key,
        IF value = None
        THEN (IF HasKey(hdr, key) THEN Get(hdr, key) ELSE 0) + 0
        ELSE 1)

RECURSIVE MarkRow(_, _)
MarkRow(hdr, row) ==
    IF row = <<>>
    THEN hdr
    ELSE MarkRow(Mark(hdr, Head(row).k, Head(row).v), Tail(row))

RECURSIVE MarkRows(_, _)
MarkRows(hdr, tbl) ==
    IF tbl = <<>>
    THEN hdr
    ELSE MarkRows(MarkRow(hdr, Head(tbl)), Tail(tbl))

\* [k for k, v in header.items() if v]
RECURSIVE NonEmptyKeys(_)
NonEmptyKeys(hdr) ==
    IF hdr = <<>>
    THEN <<>>
    ELSE (IF Head(hdr).v # 0 THEN <<Head(hdr).k>> ELSE <<>>)
            \o NonEmptyKeys(Tail(hdr))

build_header(tbl) == NonEmptyKeys(MarkRows(<<>>, tbl))

----------------------------------------------------------------------------
(* The inputs the specifications draw from.                                *)

X == <<"x">>

Y == <<"y">>

Z == <<"z">>

\* the token lists a "Trait" label can carry
TraitLists == {<<>>, <<X>>, <<X, Y>>}

NameChars == {"H", "x", "(", ")"}

\* a line end, and the tokens of a metadata block
NL == <<"\n">>

TraitLabel == TRAIT \o <<COLON>>

OtherLabel == <<"N", COLON>>

Symbols == {TraitLabel, OtherLabel, X, Y, NL}

\* the lines of a text (each the sequence of its tokens), split at the line ends
RECURSIVE LinesOf(_, _)
LinesOf(text, line) ==
    IF text = <<>>
    THEN <<line>>
    ELSE IF Head(text) = NL
         THEN <<line>> \o LinesOf(Tail(text), <<>>)
         ELSE LinesOf(Tail(text), Append(line, Head(text)))

\* while line: the lines before the first blank one
RECURSIVE MetaBlock(_)
MetaBlock(lines) ==
    IF lines = <<>> \/ Head(lines) = <<>>
    THEN <<>>
    ELSE <<Head(lines)>> \o MetaBlock(Tail(lines))

\* a readable file of this text, with no statements after the block
TextFile(text) ==
    [access |-> "ok", meta |-> MetaBlock(LinesOf(text, <<>>)), body |-> <<>>]

----------------------------------------------------------------------------
(* Specification SpecName: one call of parse_name.                         *)

IdleName == pn_name = Idle /\ pn_traits = Idle /\ pn_out = Idle

IdleHeader == hd_file = Idle /\ hd_out = Idle

IdleValue == v_traits = Idle /\ values = Idle /\ v_log = Idle /\ v_err = Idle

IdleTable == t_rows = Idle /\ table = Idle /\ header = Idle /\ t_pc = Idle

IdleMain ==
    /\ files = Idle /\ skip_failures = Idle /\ m_idx = Idle
    /\ rows = Idle /\ m_out = Idle

nameVars == <<pn_name, pn_traits, pn_out>>

headerVars == <<hd_file, hd_out>>

valueVars == <<v_traits, values, v_log, v_err>>

tableVars == <<t_rows, table, header, t_pc>>

mainVars == <<files, skip_failures, m_idx, rows, m_out>>

InitName ==
    /\ pn_name \in NonEmptySeqsUpTo(NameChars, MaxNameLen)
    /\ pn_traits \in TraitLists
    /\ pn_out = <<>>
    /\ IdleHeader /\ IdleValue /\ IdleTable /\ IdleMain

CallParseName ==
    /\ pn_out = <<>>
    /\ pn_out' = parse_name(pn_name, pn_traits)
    /\ UNCHANGED <<pn_name, pn_traits, headerVars, valueVars, tableVars, mainVars>>

NextName == CallParseName

SpecName == InitName /\ [][NextName]_vars

----------------------------------------------------------------------------
(* Specification SpecHeader: read_polygenic_out on the text of a metadata  *)
(* block, in its two steps: the header, then the values and the report.    *)

InitHeader ==
    /\ hd_file \in SeqsUpTo(Symbols, MaxTokens)
    /\ hd_out = [pc |-> "start", err |-> NoError, metadata |-> <<>>,
                 report |-> NoReport]
    /\ IdleName /\ IdleValue /\ IdleTable /\ IdleMain

\* metadata = read_polygenic_out_header(handle)
ReadHeader ==
    /\ hd_out.pc = "start"
    /\ LET h == read_polygenic_out_header(TextFile(hd_file).meta)
       IN  hd_out' = [pc |-> IF h.err = NoError THEN "header" ELSE "failed",
                      err |-> h.err, metadata |-> h.metadata,
                      report |-> NoReport]
    /\ UNCHANGED <<hd_file, nameVars, valueVars, tableVars, mainVars>>

\* values = read_polygenic_out_value(handle, metadata), and the return
ReadValues ==
    /\ hd_out.pc = "header"
    /\ LET r == read_polygenic_out(TextFile(hd_file))
       IN  hd_out' = [hd_out EXCEPT
                        !.pc = IF r.err = NoError THEN "done" ELSE "failed",
                        !.err = r.err,
                        !.report = r.report]
    /\ UNCHANGED <<hd_file, nameVars, valueVars, tableVars, mainVars>>

NextHeader == ReadHeader \/ ReadValues

SpecHeader == InitHeader /\ [][NextHeader]_vars

----------------------------------------------------------------------------
(* Properties of parse_name (SpecName).                                    *)

\* the name is X(Y): a "(" at place i, after some text, and a ")" that ends
\* the name, with some text between them
IsWholeForm(name, i) ==
    /\ 1 < i /\ i + 1 < Len(name)
    /\ name[i] = "(" /\ name[Len(name)] = ")"

\* the name begins with X(Y): the same, with the ")" at place j
IsPrefixForm(name, i, j) ==
    /\ 1 < i /\ i + 1 < j /\ j <= Len(name)
    /\ name[i] = "(" /\ name[j] = ")"

HasParen(s) == \E k \in 1..Len(s) : s[k] = "(" \/ s[k] = ")"

BareKey(name, traits) ==
    IF Len(traits) = 1 THEN <<name, traits[1]>> ELSE <<name, None>>

\* C5 as stated: a name of the form X(Y) resolves to (X, Y) whatever the
\* number of traits, and every other name resolves to (name, the sole trait)
\* in a run of one trait and to (name, None) otherwise.
C5_OriginalClaim ==
    pn_out # <<>> =>
        IF \E i \in 1..Len(pn_name) : IsWholeForm(pn_name, i)
        THEN \E i \in 1..Len(pn_name) :
                /\ IsWholeForm(pn_name, i)
                /\ pn_out = <<SubSeq(pn_name, 1, i - 1),
                              SubSeq(pn_name, i + 1, Len(pn_name) - 1)>>
        ELSE pn_out = BareKey(pn_name, pn_traits)

\* C5 amended: a name that begins with X(Y) resolves to (X, Y) whatever the
\* number of traits, where X ends before the last "(" that can open such a
\* form and Y ends before the last ")" of the name, the text after that ")"
\* being dropped; a name that is X(Y) with no other parenthesis resolves to
\* exactly (X, Y); a name that does not begin with such a form resolves to
\* (name, the sole trait) in a run of one trait and to (name, None) otherwise.
C5_ParseNamePrecedence ==
    pn_out # <<>> =>
        /\ \A i \in 1..Len(pn_name) :
              ( /\ IsWholeForm(pn_name, i)
                /\ ~HasParen(SubSeq(pn_name, 1, i - 1))
                /\ ~HasParen(SubSeq(pn_name, i + 1, Len(pn_name) - 1)) )
              => pn_out = <<SubSeq(pn_name, 1, i - 1),
                            SubSeq(pn_name, i + 1, Len(pn_name) - 1)>>
        /\ IF \E i, j \in 1..Len(pn_name) : IsPrefixForm(pn_name, i, j)
           THEN \E i, j \in 1..Len(pn_name) :
                  /\ IsPrefixForm(pn_name, i, j)
                  /\ pn_out = <<SubSeq(pn_name, 1, i - 1),
                                SubSeq(pn_name, i + 1, j - 1)>>
                  /\ \A k \in (j + 1)..Len(pn_name) : pn_name[k] # ")"
                  /\ \A i2, j2 \in 1..Len(pn_name) :
                        IsPrefixForm(pn_name, i2, j2) => i2 <= i
           ELSE pn_out = BareKey(pn_name, pn_traits)

\* a name X(Y) whose Y is not the sole trait of the run has been resolved
C5_Witness ==
    /\ pn_out = <<<<"H">>, <<"H">>>>
    /\ pn_name = <<"H", "(", "H", ")">>
    /\ pn_traits = <<X>>

----------------------------------------------------------------------------
(* Properties of the metadata block parser and of the report (SpecHeader). *)

hd_meta == TextFile(hd_file).meta

\* whether a label token stands before place k of the line, and the place
\* of the nearest one
HasOpen(ln, k) == \E m \in 1..(k - 1) : IsLabel(ln[m])

OpenAt(ln, k) == MaxOf({m \in 1..(k - 1) : IsLabel(ln[m])})

\* the tokens among the first k of a line that follow an appearance of label
RECURSIVE Following(_, _, _)
Following(ln, label, k) ==
    IF k = 0
    THEN <<>>
    ELSE Following(ln, label, k - 1) \o
         (IF /\ ~IsLabel(ln[k])
             /\ HasOpen(ln, k)
             /\ LabelOf(ln[OpenAt(ln, k)]) = label
          THEN <<ln[k]>>
          ELSE <<>>)

\* the same over the lines of a block, in reading order
RECURSIVE AllFollowing(_, _)
AllFollowing(lines, label) ==
    IF lines = <<>>
    THEN <<>>
    ELSE Following(Head(lines), label, Len(Head(lines)))
            \o AllFollowing(Tail(lines), label)

Appears(ln, label) ==
    \E m \in 1..Len(ln) : IsLabel(ln[m]) /\ LabelOf(ln[m]) = label

LabelsOf(lines) ==
    {LabelOf(lines[a][m]) : <<a, m>> \in
        {p \in (1..Len(lines)) \X (1..MaxTokens + 1) :
            p[2] <= Len(lines[p[1]]) /\ IsLabel(lines[p[1]][p[2]])}}

\* the tokens that follow the last appearance of label, up to the next label
\* token or the end of that line
LastFollowing(lines, label) ==
    LET a == MaxOf({b \in 1..Len(lines) : Appears(lines[b], label)})
        ln == lines[a]
        m == MaxOf({n \in 1..Len(ln) : IsLabel(ln[n]) /\ LabelOf(ln[n]) = label})
        e == IF \E n \in (m + 1)..Len(ln) : IsLabel(ln[n])
             THEN MinOf({n \in (m + 1)..Len(ln) : IsLabel(ln[n])}) - 1
             ELSE Len(ln)
    IN  SubSeq(ln, m + 1, e)

HeaderRead == hd_out.pc \in {"header", "done"}

\* C4 as stated: the list returned for a label is the concatenation, in
\* reading order, of the tokens that follow every appearance of the label.
C4_OriginalClaim ==
    HeaderRead =>
        \A label \in LabelsOf(hd_meta) :
            Get(hd_out.metadata, label) = AllFollowing(hd_meta, label)

\* C4 amended: every appearance of a label token starts a fresh list, so the
\* list returned for a label holds the tokens that follow its last
\* appearance only, up to the next label token or the end of that line.
C4_LastAppearanceWins ==
    HeaderRead =>
        /\ Range(Keys(hd_out.metadata)) = LabelsOf(hd_meta)
        /\ \A label \in LabelsOf(hd_meta) :
              Get(hd_out.metadata, label) = LastFollowing(hd_meta, label)

\* the header of a block was read in which a label is repeated after it had
\* collected tokens
C4_Witness ==
    /\ HeaderRead
    /\ \E label \in LabelsOf(hd_meta) :
          /\ AllFollowing(hd_meta, label) # LastFollowing(hd_meta, label)
          /\ Get(hd_out.metadata, label) = LastFollowing(hd_meta, label)

\* C6: every Report that read_polygenic_out returns has at least one trait.
C6_TraitsNonEmpty ==
    hd_out.pc = "done" => hd_out.report.traits # <<>>

----------------------------------------------------------------------------
(* Specification SpecValue: the loop of read_polygenic_out_value over the  *)
(* lines of one file, one admitted line a step.  v_log is the history of   *)
(* the statements read so far.                                             *)

NameH == <<"H">>

NameHx == <<"H", "(", "x", ")">>

NameR == <<"R">>

NameDerivedR == DERIVED \o NameR

V1 == <<"0", ".", "1">>

V2 == <<"0", ".", "2">>

P1 == <<"0", ".", "5">>

ZERO == <<"z", "e", "r", "o">>

ONE == <<"1", ".", "0">>

Stmt(shape, name, value, pvalue) ==
    [shape |-> shape, name |-> name, value |-> value, pvalue |-> pvalue]

StmtNames == {NameH, NameHx, NameR, NameDerivedR}

Stmts ==
    {Stmt("is", n, V1, None) : n \in StmtNames}
    \cup {Stmt("is", n, V2, P1) : n \in StmtNames}
    \cup {Stmt("stderr", n, v, None) : n \in StmtNames, v \in {V1, V2}}
    \cup {Stmt("different", n, c, P1) : n \in StmtNames, c \in {ZERO, ONE}}
    \cup {Stmt("other", <<>>, None, None)}

InitValue ==
    /\ v_traits \in TraitLists
    /\ values = <<>>
    /\ v_log = <<>>
    /\ v_err = NoError
    /\ IdleName /\ IdleHeader /\ IdleTable /\ IdleMain

\* one turn of "for line in handle", until a turn raises
ReadLine ==
    /\ v_err = NoError
    /\ Len(v_log) < MaxStmts
    /\ \E stmt \in Stmts :
          LET r == ValueStep(values, stmt, v_traits)
          IN  /\ values' = r.values
              /\ v_err' = r.err
              /\ v_log' = Append(v_log, stmt)
    /\ UNCHANGED <<v_traits, nameVars, headerVars, tableVars, mainVars>>

NextValue == ReadLine

SpecValue == InitValue /\ [][NextValue]_vars

----------------------------------------------------------------------------
(* Properties of the statement parser (SpecValue).                         *)

\* the key a statement of the history resolves to
KeyOf(stmt) ==
    IF stmt.shape = "is"
    THEN AssignKey(stmt, v_traits)
    ELSE parse_name(stmt.name, v_traits)

IsFollowUp(stmt) == stmt.shape \in {"stderr", "different"}

\* the places of the assignments to a key
AssignIdx(key) ==
    {i \in 1..Len(v_log) : v_log[i].shape = "is" /\ KeyOf(v_log[i]) = key}

AssignedKeys == {KeyOf(v_log[i]) : i \in {j \in 1..Len(v_log) : v_log[j].shape = "is"}}

\* the difference tests for a key at the places from..upto of the history
RECURSIVE DiffsBetween(_, _, _)
DiffsBetween(key, from, upto) ==
    IF upto < from
    THEN <<>>
    ELSE DiffsBetween(key, from, upto - 1) \o
         (IF v_log[upto].shape = "different" /\ KeyOf(v_log[upto]) = key
          THEN << <<v_log[upto].value, v_log[upto].pvalue>> >>
          ELSE <<>>)

\* the record the history gives a key that has been assigned
ExpectedRecord(key) ==
    LET last == MaxOf(AssignIdx(key))
        se == {i \in (last + 1)..Len(v_log) :
                  v_log[i].shape = "stderr" /\ KeyOf(v_log[i]) = key}
    IN  [estimated |-> StartsWith(parse_name(v_log[last].name, v_traits)[1],
                                  DERIVED),
         value |-> v_log[last].value,
         pvalue |-> v_log[last].pvalue,
         stderr |-> IF se = {} THEN None ELSE v_log[MaxOf(se)].value,
         different |-> DiffsBetween(key, last + 1, Len(v_log))]

\* the last statement read is a follow-up whose key no earlier statement
\* has assigned
LastIsOrphan ==
    /\ v_log # <<>>
    /\ IsFollowUp(v_log[Len(v_log)])
    /\ \A i \in 1..(Len(v_log) - 1) :
          ~(v_log[i].shape = "is" /\ KeyOf(v_log[i]) = KeyOf(v_log[Len(v_log)]))

\* C3: a Std. Error or "different from" statement whose key has no record
\* always fails with the parse error of its kind (OrphanStdError,
\* OrphanDifferenceTest), a ParseError like the other per-file errors.
C3_OrphanIsParseError ==
    LastIsOrphan =>
        v_err = ParseError(IF v_log[Len(v_log)].shape = "stderr"
                           THEN "OrphanStdError"
                           ELSE "OrphanDifferenceTest")

\* C8: as long as no statement has failed, the records are keyed by the keys
\* that were assigned, in the order of their first assignments, and the
\* record of a key holds the value, p-value and estimated flag of its last
\* assignment, the last Std. Error after it (None without one) and the
\* difference tests after it, in order.
C8_LastAssignmentWins ==
    v_err = NoError =>
        /\ Range(Keys(values)) = AssignedKeys
        /\ \A p \in 1..Len(values) :
              values[p].v = ExpectedRecord(values[p].k)
        /\ \A p, q \in 1..Len(values) :
              p < q => MinOf(AssignIdx(values[p].k)) < MinOf(AssignIdx(values[q].k))

\* a key was assigned, given a standard error or a difference test, and
\* assigned again: the record has lost what was attached
C8_Witness ==
    /\ v_err = NoError
    /\ \E i, j, k \in 1..Len(v_log) :
          /\ i < j /\ j < k
          /\ v_log[i].shape = "is" /\ v_log[k].shape = "is"
          /\ IsFollowUp(v_log[j])
          /\ KeyOf(v_log[i]) = KeyOf(v_log[j])
          /\ KeyOf(v_log[k]) = KeyOf(v_log[j])
          /\ Get(values, KeyOf(v_log[k])).stderr = None
          /\ Get(values, KeyOf(v_log[k])).different = <<>>
          /\ Get(values, KeyOf(v_log[k])).value # v_log[i].value

\* C10: a Std. Error or "different from" statement whose raw name is the raw
\* name of an earlier assignment of the file finds that record: it does not
\* fail, whatever the name.
C10_FollowUpFindsRecord ==
    ( /\ v_log # <<>>
      /\ IsFollowUp(v_log[Len(v_log)])
      /\ \E i \in 1..(Len(v_log) - 1) :
            v_log[i].shape = "is" /\ v_log[i].name = v_log[Len(v_log)].name )
    => /\ v_err = NoError
       /\ HasKey(values, KeyOf(v_log[Len(v_log)]))

----------------------------------------------------------------------------
(* Specification SpecTable: build_table, then build_header, on Reports     *)
(* that read_polygenic_out returns.                                        *)

NameHy == <<"H", "(", "y", ")">>

MetaX == << <<TraitLabel, X>> >>

MetaXY == << <<TraitLabel, X, Y>> >>

MetaYX == << <<TraitLabel, Y, X>> >>

MetaXN == << <<TraitLabel, X>>, <<OtherLabel, Y, X>> >>

Bodies ==
    { <<>>,
      << Stmt("is", NameHx, V1, P1) >>,
      << Stmt("is", NameHx, V1, P1), Stmt("stderr", NameHx, V2, None) >>,
      << Stmt("is", NameHy, V2, None) >>,
      << Stmt("is", NameDerivedR, V1, None) >>,
      << Stmt("is", NameDerivedR, V1, None), Stmt("different", NameR, ZERO, P1) >>,
      << Stmt("is", NameH, V2, None), Stmt("different", NameH, ONE, P1) >> }

TableFiles ==
    {[access |-> "ok", meta |-> m, body |-> b] :
        m \in {MetaX, MetaXY, MetaYX, MetaXN}, b \in Bodies}

\* the Reports read_polygenic_out returns for these files
Reports ==
    {read_polygenic_out(f).report :
        f \in {g \in TableFiles : read_polygenic_out(g).err = NoError}}

InitTable ==
    /\ t_rows \in SeqsUpTo(Reports, MaxReports)
    /\ table = [err |-> NoError, table |-> <<>>]
    /\ header = <<>>
    /\ t_pc = "start"
    /\ IdleName /\ IdleHeader /\ IdleValue /\ IdleMain

\* table = build_table(rows)
BuildTable ==
    /\ t_pc = "start"
    /\ table' = build_table(t_rows)
    /\ t_pc' = IF table'.err = NoError THEN "table" ELSE "failed"
    /\ UNCHANGED <<t_rows, header, nameVars, headerVars, valueVars, mainVars>>

\* header = build_header(table)
BuildHeader ==
    /\ t_pc = "table"
    /\ header' = build_header(table.table)
    /\ t_pc' = "header"
    /\ UNCHANGED <<t_rows, table, nameVars, headerVars, valueVars, mainVars>>

NextTable == BuildTable \/ BuildHeader

SpecTable == InitTable /\ [][NextTable]_vars

----------------------------------------------------------------------------
(* Specification SpecMain: main over its input files, one file a step,     *)
(* then the table.                                                         *)

NA == <<"N", "A">>

GoodFile1 ==
    [access |-> "ok", meta |-> MetaXY,
     body |-> << Stmt("is", NameHx, V1, P1), Stmt("stderr", NameHx, V2, None) >>]

GoodFile2 ==
    [access |-> "ok", meta |-> MetaX,
     body |-> << Stmt("is", NameDerivedR, V1, None) >>]

MainFiles ==
    { GoodFile1, GoodFile2,
      \* IncompleteRun
      [access |-> "ok", meta |-> <<SENTINEL>>, body |-> <<>>],
      \* NoMetadata
      [access |-> "ok", meta |-> <<>>, body |-> <<>>],
      \* MissingTraitLabel
      [access |-> "ok", meta |-> << <<OtherLabel, X>> >>, body |-> <<>>],
      \* OrphanStdError
      [access |-> "ok", meta |-> MetaX,
       body |-> << Stmt("stderr", NameH, V1, None) >>],
      \* OrphanDifferenceTest
      [access |-> "ok", meta |-> MetaX,
       body |-> << Stmt("different", NameH, ZERO, P1) >>],
      \* UnreadableFile: no such path, no permission, not text
      [access |-> "missing", meta |-> <<>>, body |-> <<>>],
      [access |-> "denied", meta |-> <<>>, body |-> <<>>],
      [access |-> "binary", meta |-> <<>>, body |-> <<>>],
      \* accepted, with a record of a trait that the run does not list
      [access |-> "ok", meta |-> MetaX,
       body |-> << Stmt("is", NameHy, V2, None) >>] }

Running == [status |-> "running", code |-> 0, exc |-> NoError, stdout |-> <<>>]

InitMain ==
    /\ files \in NonEmptySeqsUpTo(MainFiles, MaxFiles)
    /\ skip_failures \in BOOLEAN
    /\ m_idx = 1
    /\ rows = <<>>
    /\ m_out = Running
    /\ IdleName /\ IdleHeader /\ IdleValue /\ IdleTable

\* the body of the try block for one file, lines 232-238
ReadFile(file) ==
    IF file.access = "missing"
    THEN [err |-> ParseError("UnreadableFile"), report |-> NoReport]
    ELSE read_polygenic_out(file)

\* the exceptions the loop of main handles itself, lines 239 and 244
Caught(exc) == exc.type \in {"ParseError", "PermissionError"}

\* one turn of "for filepath in args.files"
MainFile ==
    /\ m_out.status = "running"
    /\ m_idx <= Len(files)
    /\ LET r == ReadFile(files[m_idx])
       IN  /\ rows' = IF r.err = NoError THEN Append(rows, r.report) ELSE rows
           /\ m_out' =
                IF r.err = NoError THEN m_out
                ELSE IF Caught(r.err)
                     THEN IF skip_failures
                          THEN m_out
                          ELSE [m_out EXCEPT !.status = "returned", !.code = 1,
                                             !.exc = r.err]
                     ELSE [m_out EXCEPT !.status = "raised", !.exc = r.err]
    /\ m_idx' = m_idx + 1
    /\ UNCHANGED <<files, skip_failures, nameVars, headerVars, valueVars, tableVars>>

\* row.get(key), with args.na_value for None
Cell(row, key) == IF Get(row, key) = None THEN NA ELSE Get(row, key)

\* the lines printed: the header, then one line a row
Printed(hdr, tbl) ==
    <<hdr>> \o [i \in 1..Len(tbl) |-> [j \in 1..Len(hdr) |-> Cell(tbl[i], hdr[j])]]

\* the end of main, lines 253-268
MainTable ==
    /\ m_out.status = "running"
    /\ m_idx > Len(files)
    /\ LET t == build_table(rows)
       IN  m_out' =
             IF t.err # NoError
             THEN [m_out EXCEPT !.status = "raised", !.exc = t.err]
             ELSE [m_out EXCEPT !.status = "returned", !.code = 0,
                                !.stdout = Printed(build_header(t.table), t.table)]
    /\ UNCHANGED <<files, skip_failures, m_idx, rows, nameVars, headerVars,
                   valueVars, tableVars>>

NextMain == MainFile \/ MainTable

SpecMain == InitMain /\ [][NextMain]_vars

----------------------------------------------------------------------------
(* Properties of build_table and build_header (SpecTable).                 *)

\* the cells of the rows of a table, in the order of the scan
RECURSIVE Flatten(_)
Flatten(tbl) ==
    IF tbl = <<>> THEN <<>> ELSE Head(tbl) \o Flatten(Tail(tbl))

Cells == Flatten(table.table)

FirstSeen(key) == MinOf({i \in 1..Len(Cells) : Cells[i].k = key})

FilledKeys == {Cells[i].k : i \in {j \in 1..Len(Cells) : Cells[j].v # None}}

SeenKeys == {Cells[i].k : i \in 1..Len(Cells)}

\* C1: the header holds exactly the keys to which some row gives a value,
\* each once, in the order in which the scan of the rows first meets them
\* (an absent first occurrence counts); a key absent in every row is left out.
C1_HeaderFirstSeenOrder ==
    t_pc = "header" =>
        /\ Range(header) = FilledKeys
        /\ \A p, q \in 1..Len(header) :
              p < q => /\ header[p] # header[q]
                       /\ FirstSeen(header[p]) < FirstSeen(header[q])

\* a header was built from rows in which a key is absent everywhere, and
\* another key is absent where it is first met and filled in a later row
C1_Witness ==
    /\ t_pc = "header"
    /\ SeenKeys # FilledKeys
    /\ \E p \in 1..Len(header) : Cells[FirstSeen(header[p])].v = None
    /\ \E p \in 1..Len(header) :
          \E i \in 1..Len(Cells) : Cells[i].k = header[p] /\ Cells[i].v = None
                                   /\ i > FirstSeen(header[p])

\* the place of a trait in the trait list of its own Report
OwnPlace(report, trait) ==
    CHOOSE k \in 1..Len(report.traits) : report.traits[k] = trait

\* the base key C7 gives the record at place p of a Report
ClaimedKey(report, p) ==
    LET name == report.values[p].k[1]
        trait == report.values[p].k[2]
    IN  IF trait # None
        THEN name \o <<".", ascii_uppercase[OwnPlace(report, trait)]>>
        ELSE IF report.values[p].v.estimated
             THEN name \o <<".", "e", "s", "t">>
             ELSE name

GlobalMax == NumTraits(t_rows)

\* C7: in the row of a Report, the first cells pair the letters A, B, ... of
\* the largest trait count with the traits of that Report, None after its
\* last trait; and the record keyed (name, trait) is found under name.L, L
\* the letter of the place of trait in the Report's own trait list, without
\* ".est", or, when trait is None, under name.est if estimated and name if not.
C7_BaseKeyOfOwnReport ==
    t_pc \in {"table", "header"} =>
        \A r \in 1..Len(t_rows) :
            LET report == t_rows[r]
                row == table.table[r]
            IN  /\ Len(row) >= GlobalMax
                /\ \A k \in 1..GlobalMax :
                      /\ row[k].k = <<ascii_uppercase[k]>>
                      /\ row[k].v = IF k <= Len(report.traits)
                                    THEN report.traits[k]
                                    ELSE None
                /\ \A p \in 1..Len(report.values) :
                      LET key == ClaimedKey(report, p)
                          rec == report.values[p].v
                      IN  /\ HasKey(row, key)
                          /\ Get(row, key) = rec.value
                          /\ HasKey(row, key \o <<".", "s", "t", "d", "e", "r", "r">>)
                          /\ Get(row, key \o <<".", "s", "t", "d", "e", "r", "r">>) = rec.stderr
                          /\ HasKey(row, key \o <<".", "p", "v", "a", "l", "u", "e">>)
                          /\ Get(row, key \o <<".", "p", "v", "a", "l", "u", "e">>) = rec.pvalue
                /\ Len(row) = GlobalMax + Len(report.metadata)
                      + 3 * Len(report.values)
                      + Cardinality({<<p, d>> \in
                            (1..Len(report.values)) \X (1..MaxStmts + 1) :
                                d <= Len(report.values[p].v.different)})

\* a table was built in which a Report has fewer traits than another, holds
\* an estimated record with a trait, and lists its traits in another order
\* than a Report of as many traits
C7_Witness ==
    /\ t_pc = "table"
    /\ \E r \in 1..Len(t_rows) :
          /\ Len(t_rows[r].traits) < GlobalMax
          /\ \E p \in 1..Len(t_rows[r].values) :
                /\ t_rows[r].values[p].v.estimated
                /\ t_rows[r].values[p].k[2] # None
                /\ HasKey(table.table[r], t_rows[r].values[p].k[1] \o <<".", "A">>)
    /\ \E r \in 1..Len(t_rows) :
          /\ Len(t_rows[r].traits) = GlobalMax
          /\ HasKey(table.table[r], <<"H", ".", "B">>)

\* C9: in a Report that read_polygenic_out returns, the trait of every
\* record key is a trait of the Report, so that build_table does not fail.
C9_AcceptedReportsTabulate ==
    t_pc # "start" =>
        /\ table.err = NoError
        /\ \A r \in 1..Len(t_rows) :
              \A p \in 1..Len(t_rows[r].values) :
                  t_rows[r].values[p].k[2] # None =>
                      t_rows[r].values[p].k[2] \in Range(t_rows[r].traits)

----------------------------------------------------------------------------
(* Properties of main (SpecMain).                                          *)

Taxonomy ==
    {"IncompleteRun", "NoMetadata", "MissingTraitLabel", "OrphanStdError",
     "OrphanDifferenceTest", "UnreadableFile"}

\* the files before place n that fail, and the Reports of those that do not
FailsAt(i) == ReadFile(files[i]).err # NoError

RECURSIVE ReportsUpTo(_)
ReportsUpTo(n) ==
    IF n = 0
    THEN <<>>
    ELSE ReportsUpTo(n - 1) \o
         (IF FailsAt(n) THEN <<>> ELSE <<ReadFile(files[n]).report>>)

Finished == m_out.status # "running"

\* C2: an error of the taxonomy in a file never leaves main as an exception;
\* with --skip-failures the run goes through all files, keeps one row for
\* each file that does not fail, in input order, prints the table and
\* returns 0; without it the first failing file makes main return 1 with
\* nothing printed.
C2_PerFileErrorsCaught ==
    /\ m_out.status = "raised" => m_out.exc.kind \notin Taxonomy
    /\ (Finished /\ skip_failures) =>
          /\ m_out.status = "returned"
          /\ m_out.code = 0
          /\ m_out.stdout # <<>>
          /\ rows = ReportsUpTo(Len(files))
    /\ (Finished /\ ~skip_failures /\ \E i \in 1..Len(files) : FailsAt(i)) =>
          /\ m_out.status = "returned"
          /\ m_out.code = 1
          /\ m_out.stdout = <<>>

====
